---- MODULE Spec2Model ----
(***************************************************************************)
(* BTC/USD price service: the Flask route get_btc_price (app.py) with its  *)
(* in-memory cache, and CoingeckoPriceProvider.get_btc_usd_price           *)
(* (price_provider.py) with its bounded retry loop.                        *)
(*                                                                         *)
(* Time is an integer number of ticks; one hundredth of a second is        *)
(* SubTicks ticks, so that round(x, 2) is a real conversion.               *)
(***************************************************************************)
EXTENDS Integers, Sequences, FiniteSets, TLC

\* ------------------------------------------------------------------ bounds
NumThreads == 2
MaxTicks == 3
MaxRetryAttempts == 2
SubTicks == 3

\* --------------------------------------------------------------- constants
CACHE_TTL_SECONDS == 30
CentisPerSecond == 100
\* retry_backoff_seconds = 0.3, in hundredths of a second
RetryBackoffCentis == 30

TicksPerSecond == CentisPerSecond * SubTicks
TTL == CACHE_TTL_SECONDS * TicksPerSecond
BackoffTicks == RetryBackoffCentis * SubTicks

Threads == 1..NumThreads

None == [none |-> TRUE]

\* dict merge {**r, **s}: the keys of s override those of r
Merge(r, s) ==
  [k \in (DOMAIN r) \cup (DOMAIN s) |-> IF k \in DOMAIN s THEN s[k] ELSE r[k]]

\* truncation instead of rounding
Round2Floor(x) == (x \div SubTicks) * SubTicks

\* round(x, 2) on a duration in ticks: nearest hundredth, ties to even
Round2(x) ==
  LET q  == x \div SubTicks
      lo == q * SubTicks
      r  == x - lo
  IN  IF 2 * r < SubTicks THEN lo
      ELSE IF 2 * r > SubTicks THEN lo + SubTicks
      ELSE IF q % 2 = 0 THEN lo ELSE lo + SubTicks

\* time.strftime("%Y-%m-%dT%H:%M:%SZ", time.gmtime()): whole seconds
FormatSeconds(t) == t \div TicksPerSecond

\* ------------------------------------------------------- upstream responses
\* What one requests.get can produce.  kind:
\*   "network"  requests.RequestException          (detail: which one)
\*   "status"   a response with status_code # 200  (code)
\*   "badjson"  status 200, response.json() raises ValueError
\*   "json"     status 200, a JSON body: bitcoin present or not, the value of
\*              bitcoin.usd and of bitcoin.last_updated_at
Outcome(kind, detail, code, bitcoin, usd, ts) ==
  [kind |-> kind, detail |-> detail, code |-> code,
   bitcoin |-> bitcoin, usd |-> usd, ts |-> ts]

UsdInvalid == {"null", "text"}
UsdNumbers == {"huge", "nan", "zero", "p1", "p2"}
TsValues == {"absent", "text", "epoch", "huge"}

HttpOutcomes ==
  {Outcome("network", "timeout", 0, FALSE, "absent", "absent")}
  \cup {Outcome("status", "", c, FALSE, "absent", "absent") : c \in {404, 500}}
  \cup {Outcome("badjson", "", 200, FALSE, "absent", "absent")}
  \cup {Outcome("json", "", 200, FALSE, "absent", "absent")}
  \cup {Outcome("json", "", 200, TRUE, u, "absent") : u \in UsdInvalid}
  \cup {Outcome("json", "", 200, TRUE, u, s) : u \in UsdNumbers, s \in TsValues}

\* float(bitcoin["usd"]): the exception it raises, or the float it yields
Float(usd) ==
  CASE usd = "absent" -> [raises |-> "KeyError"]
    [] usd = "null"   -> [raises |-> "TypeError"]
    [] usd = "text"   -> [raises |-> "ValueError"]
    [] usd = "huge"   -> [raises |-> "OverflowError"]
    [] usd = "nan"    -> [raises |-> "", cls |-> "nan", n |-> 0]
    [] usd = "zero"   -> [raises |-> "", cls |-> "finite", n |-> 0]
    [] usd = "p1"     -> [raises |-> "", cls |-> "finite", n |-> 1]
    [] usd = "p2"     -> [raises |-> "", cls |-> "finite", n |-> 2]

Price(f) == [cls |-> f.cls, n |-> f.n]

\* the timestamp branch, lines 108-117
ProviderLastUpdated(ts, clock) ==
  CASE ts = "epoch" -> [raises |-> "", from |-> "upstream", at |-> 0]
    [] ts = "huge"  -> [raises |-> "OverflowError"]
    [] OTHER        -> [raises |-> "", from |-> "now", at |-> clock]

PriceProviderError(kind, detail, code, bitcoin, usd, ts) ==
  [type |-> "PriceProviderError", kind |-> kind, detail |-> detail, code |-> code,
   bitcoin |-> bitcoin, usd |-> usd, ts |-> ts]

\* One pass of the retry loop body, lines 70-132, on the outcome o of
\* requests.get: the quote returned, the error kept in last_error, or the
\* exception that no except clause of the loop catches.
AttemptResult(o, clock) ==
  IF o.kind = "network" THEN
    [result |-> "failed",
     error |-> PriceProviderError("network", o.detail, 0, FALSE, "absent", "absent")]
  ELSE IF o.code # 200 THEN
    [result |-> "failed",
     error |-> PriceProviderError("status", "", o.code, FALSE, "absent", "absent")]
  ELSE IF o.kind = "badjson" THEN
    [result |-> "failed",
     error |-> PriceProviderError("badjson", "", 0, FALSE, "absent", "absent")]
  ELSE IF ~o.bitcoin \/ Float(o.usd).raises \in {"KeyError", "TypeError", "ValueError"} THEN
    [result |-> "failed",
     error |-> PriceProviderError("structure", "", 0, o.bitcoin, o.usd, o.ts)]
  ELSE IF Float(o.usd).raises # "" THEN
    [result |-> "raise", exc |-> Float(o.usd).raises]
  ELSE IF ProviderLastUpdated(o.ts, clock).raises # "" THEN
    [result |-> "raise", exc |-> ProviderLastUpdated(o.ts, clock).raises]
  ELSE
    [result |-> "return",
     payload |-> [price |-> Price(Float(o.usd)),
                  source |-> "coingecko",
                  provider_last_updated |->
                    [from |-> ProviderLastUpdated(o.ts, clock).from,
                     at |-> ProviderLastUpdated(o.ts, clock).at]]]

\* --------------------------------------------------------------------- state
VARIABLES
  now,             \* the clock read by time.time(), in ticks
  ticks,           \* how many times the clock has advanced
  price_cache,     \* _price_cache: [data, fetched_at]
  retry_attempts,  \* CoingeckoPriceProvider.retry_attempts
  pc,              \* per request thread: where it is in get_btc_price
  frame,           \* per request thread: the local variables
  resp,            \* per request thread: the (body, status) returned
  obs,             \* per request thread: what the request has done so far
  origin           \* which requests the two fields of _price_cache come from

vars == <<now, ticks, price_cache, retry_attempts, pc, frame, resp, obs, origin>>

EmptyFrame ==
  [now |-> 0, allow_stale |-> FALSE, age |-> 0, attempt |-> 0,
   last_error |-> None, e |-> None, provider_payload |-> None,
   response_payload |-> None]

\* obs: calls/sleeps count requests.get / time.sleep calls of this request,
\* slept is the total duration passed to time.sleep,
\* last is the error of the latest requests.get (None when it did not fail in a
\* way the loop catches) and kinds the kinds of attempt results seen, both kept
\* while get_btc_usd_price runs and until its caller takes over,
\* at_data/at_fetched_at/at_now the cache and clock when the request arrived,
\* view whether the fetched_at and the data get_cached_price returned were
\* written by one call of update_cache ("same") or not ("torn"),
\* fetch how its call of get_btc_usd_price ended ("none" while there is none:
\* "returned", "PriceProviderError", "unexpected") and quote what it returned
EmptyObs ==
  [calls |-> 0, sleeps |-> 0, slept |-> 0, last |-> None, kinds |-> {},
   at_data |-> None, at_fetched_at |-> 0, at_now |-> 0,
   fetch |-> "none", quote |-> None, view |-> "none"]

\* origin: pending is the thread whose update_cache wrote data last and has
\* not written fetched_at yet (0: there is none), coherent whether fetched_at
\* was written by the same call of update_cache as data (or both are still the
\* initial values), before the pairs <<a, b>> of threads with a's fetch started
\* before b's while neither has written yet, behind the threads whose fetch
\* started before the fetch that produced the data now cached, regressed
\* whether the call of update_cache now between its two writes overwrote data
\* of a fetch that started later than its own, failed whether a call of
\* get_btc_usd_price has raised PriceProviderError since the cache was last
\* written
EmptyOrigin ==
  [pending |-> 0, coherent |-> TRUE, before |-> {}, behind |-> {},
   regressed |-> FALSE, failed |-> FALSE]

\* time.time() when the process starts: far more than TTL after the epoch
StartTime == 2 * TTL

Init ==
  /\ now = StartTime
  /\ ticks = 0
  /\ price_cache = [data |-> None, fetched_at |-> 0]
  /\ retry_attempts \in 1..MaxRetryAttempts
  /\ pc = [t \in Threads |-> "idle"]
  /\ frame = [t \in Threads |-> EmptyFrame]
  /\ resp = [t \in Threads |-> None]
  /\ obs = [t \in Threads |-> EmptyObs]
  /\ origin = EmptyOrigin

\* ------------------------------------------------------------------- clock
TickSteps == {1, TTL}

\* a clock advance that also sweeps an expired entry out of the cache
TickSweeping ==
  /\ ticks < MaxTicks
  /\ \E d \in TickSteps :
       /\ now' = now + d
       /\ price_cache' = IF now + d - price_cache.fetched_at > TTL
                           THEN [price_cache EXCEPT !.data = None]
                           ELSE price_cache
  /\ ticks' = ticks + 1
  /\ UNCHANGED <<retry_attempts, pc, frame, resp, obs, origin>>

\* time passes; nothing in the process runs on a timer
Tick ==
  /\ ticks < MaxTicks
  /\ \E d \in TickSteps : now' = now + d
  /\ ticks' = ticks + 1
  /\ UNCHANGED <<price_cache, retry_attempts, pc, frame, resp, obs, origin>>

\* ------------------------------------------------------- get_cached_price
\* the boundary age TTL taken as expired
IsFreshStrict(age) == age < TTL

\* line 69
IsFresh(age) == age <= TTL

\* lines 72-76
CachedView(data, age) ==
  [data |-> data, age_seconds |-> age, stale |-> ~IsFresh(age)]

\* ---------------------------------------------------------- get_btc_price
\* a cache hit answered with the warning of the fallback
FreshHitResponseWarned(cached) ==
  [status |-> 200,
   body |-> Merge(cached.data,
                  [stale |-> cached.stale,
                   cache_age_seconds |-> Round2(cached.age_seconds),
                   warning |-> "Using stale cached price due to upstream error."])]

\* lines 114-118 and 127
FreshHitResponse(cached) ==
  [status |-> 200,
   body |-> Merge(cached.data,
                  [stale |-> cached.stale,
                   cache_age_seconds |-> Round2(cached.age_seconds)])]

\* the stale fallback answered with the payload of a cache hit
StaleResponseAsHit(stale_cached) == FreshHitResponse(stale_cached)

\* lines 177-182 and 191
StaleResponse(stale_cached) ==
  [status |-> 200,
   body |-> Merge(stale_cached.data,
                  [stale |-> TRUE,
                   cache_age_seconds |-> Round2(stale_cached.age_seconds),
                   warning |-> "Using stale cached price due to upstream error."])]

\* the provider failure answered as a success
BadGatewaySilent(e) ==
  [status |-> 200,
   body |-> [error |-> "Failed to fetch BTC price from upstream provider.",
             details |-> e]]

\* lines 193-201
BadGatewayResponse(e) ==
  [status |-> 502,
   body |-> [error |-> "Failed to fetch BTC price from upstream provider.",
             details |-> e]]

\* lines 207-215
UnexpectedResponse(e) ==
  [status |-> 500,
   body |-> [error |-> "Unexpected error while fetching BTC price.",
             details |-> e]]

\* lines 145-157
ResponsePayload(provider_payload, clock) ==
  [symbol |-> "BTC",
   currency |-> "USD",
   price |-> provider_payload.price,
   source |-> provider_payload.source,
   provider_last_updated |-> provider_payload.provider_last_updated,
   server_last_updated |-> FormatSeconds(clock),
   stale |-> FALSE,
   cache_age_seconds |-> 0]

\* GET /api/prices/btc-usd arrives; get_cached_price() reads the clock (line 65)
Request(t) ==
  /\ pc[t] = "idle"
  /\ pc' = [pc EXCEPT ![t] = "gcp_data"]
  /\ frame' = [frame EXCEPT ![t] = [EmptyFrame EXCEPT !.now = now]]
  /\ resp' = [resp EXCEPT ![t] = None]
  /\ obs' = [obs EXCEPT ![t] = [EmptyObs EXCEPT !.at_data = price_cache.data,
                                               !.at_fetched_at = price_cache.fetched_at,
                                               !.at_now = now]]
  /\ UNCHANGED <<now, ticks, price_cache, retry_attempts, origin>>

\* lines 129-161: the request has called get_btc_usd_price and has not
\* written its quote to the cache yet
InFetch(u) == pc[u] \in {"http", "sleep", "normalize", "update_data"}

\* line 132: t calls get_btc_usd_price, after the fetches already running
FetchStarted(t) ==
  [origin EXCEPT
     !.before = {p \in @ : p[1] # t /\ p[2] # t}
                  \cup {<<u, t>> : u \in {v \in Threads \ {t} : InFetch(v)}},
     !.behind = @ \ {t}]

\* get_cached_price has returned `cached` to get_btc_price: line 113 after the
\* call of line 112, line 176 after the call of line 175
Returned(t, cached) ==
  IF ~frame[t].allow_stale THEN
    IF cached # None THEN
      /\ resp' = [resp EXCEPT ![t] = FreshHitResponse(cached)]
      /\ pc' = [pc EXCEPT ![t] = "done"]
      /\ frame' = [frame EXCEPT ![t] = EmptyFrame]
      /\ origin' = origin
    ELSE
      /\ resp' = resp
      /\ pc' = [pc EXCEPT ![t] = "http"]
      /\ frame' = [frame EXCEPT ![t].attempt = 1]
      /\ origin' = FetchStarted(t)
  ELSE
    /\ resp' = [resp EXCEPT ![t] =
                  IF cached # None THEN StaleResponse(cached)
                  ELSE BadGatewayResponse(frame[t].e)]
    /\ pc' = [pc EXCEPT ![t] = "done"]
    /\ frame' = [frame EXCEPT ![t] = EmptyFrame]
    /\ origin' = origin

\* line 66
ReadData(t) ==
  /\ pc[t] = "gcp_data"
  /\ IF price_cache.data = None
       THEN Returned(t, None)
       ELSE /\ pc' = [pc EXCEPT ![t] = "gcp_age"]
            /\ UNCHANGED <<frame, resp, origin>>
  /\ UNCHANGED <<now, ticks, price_cache, retry_attempts, obs>>

\* lines 68-71
ReadFetchedAt(t) ==
  /\ pc[t] = "gcp_age"
  /\ LET age == frame[t].now - price_cache.fetched_at
     IN  IF ~IsFresh(age) /\ ~frame[t].allow_stale
           THEN Returned(t, None)
           ELSE /\ pc' = [pc EXCEPT ![t] = "gcp_ret"]
                /\ frame' = [frame EXCEPT ![t].age = age]
                /\ resp' = resp
                /\ origin' = origin
  /\ obs' = IF pc'[t] = "gcp_ret"
              THEN [obs EXCEPT ![t].view = IF origin.coherent THEN "same" ELSE "torn"]
              ELSE obs
  /\ UNCHANGED <<now, ticks, price_cache, retry_attempts>>

\* lines 72-76
BuildCached(t) ==
  /\ pc[t] = "gcp_ret"
  /\ Returned(t, CachedView(price_cache.data, frame[t].age))
  /\ UNCHANGED <<now, ticks, price_cache, retry_attempts, obs>>

\* ------------------------------------------------------ get_btc_usd_price
\* the first error kept instead of the latest
AssignFirstError(last_error, error) ==
  IF last_error = None THEN error ELSE last_error

\* lines 76, 89, 96, 104: last_error = PriceProviderError(...)
AssignLastError(last_error, error) == error

\* a sleep after every failed attempt, the last included
ShouldSleepAlways(attempt, k) == attempt < k + 1

\* line 145
ShouldSleep(attempt, k) == attempt < k

\* line 146: the argument of time.sleep
SleepLength(attempt) == BackoffTicks

\* a loop over range(1, retry_attempts)
HasNextAttemptShort(attempt, k) == attempt + 1 < k

\* a loop over range(1, retry_attempts + 2)
HasNextAttemptLong(attempt, k) == attempt + 1 < k + 2

\* line 69: range(1, retry_attempts + 1) has a value after `attempt`
HasNextAttempt(attempt, k) == attempt + 1 < k + 1

\* line 149
RaisedError(last_error) ==
  IF last_error = None
    THEN PriceProviderError("unknown", "", 0, FALSE, "absent", "absent")
    ELSE last_error

\* the loop has no further attempt: line 149 raises, line 163 catches
LoopExit(t, fr, ob) ==
  /\ pc' = [pc EXCEPT ![t] = "except_provider"]
  /\ frame' = [frame EXCEPT ![t] = [fr EXCEPT !.e = RaisedError(fr.last_error)]]
  /\ obs' = [obs EXCEPT ![t] = [ob EXCEPT !.fetch = "PriceProviderError"]]

NextAttempt(t, fr, ob) ==
  /\ pc' = [pc EXCEPT ![t] = "http"]
  /\ frame' = [frame EXCEPT ![t] = [fr EXCEPT !.attempt = fr.attempt + 1]]
  /\ obs' = [obs EXCEPT ![t] = ob]

\* lines 70-132 and 134-145: one requests.get and what the loop body makes of it
LoopPass(t, outcomes) ==
  /\ pc[t] = "http"
  /\ \E o \in outcomes :
       LET r  == AttemptResult(o, now)
           ob == [obs[t] EXCEPT
                    !.calls = @ + 1,
                    !.last = IF r.result = "failed" THEN r.error ELSE None,
                    !.kinds = @ \cup {IF r.result = "failed" THEN r.error.kind
                                                              ELSE r.result}]
       IN  CASE r.result = "return" ->
                  /\ pc' = [pc EXCEPT ![t] = "normalize"]
                  /\ frame' = [frame EXCEPT ![t].provider_payload = r.payload]
                  /\ obs' = [obs EXCEPT ![t] = [ob EXCEPT !.fetch = "returned",
                                                          !.quote = r.payload]]
             [] r.result = "raise" ->
                  /\ pc' = [pc EXCEPT ![t] = "except_unexpected"]
                  /\ frame' = [frame EXCEPT ![t].e = [type |-> r.exc]]
                  /\ obs' = [obs EXCEPT ![t] = [ob EXCEPT !.fetch = "unexpected"]]
             [] r.result = "failed" ->
                  LET fr == [frame[t] EXCEPT
                               !.last_error = AssignLastError(@, r.error)]
                  IN  IF ShouldSleep(fr.attempt, retry_attempts)
                        THEN /\ pc' = [pc EXCEPT ![t] = "sleep"]
                             /\ frame' = [frame EXCEPT ![t] = fr]
                             /\ obs' = [obs EXCEPT ![t] = ob]
                        ELSE IF HasNextAttempt(fr.attempt, retry_attempts)
                          THEN NextAttempt(t, fr, ob)
                          ELSE LoopExit(t, fr, ob)
  /\ UNCHANGED <<now, ticks, price_cache, retry_attempts, resp, origin>>

HttpAttempt(t) == LoopPass(t, HttpOutcomes)

\* line 146: time.sleep(retry_backoff_seconds), then the next pass of the loop.
\* The clock is the value time.time() returns, which Tick alone moves: it may
\* stand still across a sleep, as under the frozen clock of tests/test_app.py.
Sleep(t) ==
  /\ pc[t] = "sleep"
  /\ LET ob == [obs[t] EXCEPT !.sleeps = @ + 1,
                              !.slept = @ + SleepLength(frame[t].attempt)]
     IN  IF HasNextAttempt(frame[t].attempt, retry_attempts)
           THEN NextAttempt(t, frame[t], ob)
           ELSE LoopExit(t, frame[t], ob)
  /\ UNCHANGED <<now, ticks, price_cache, retry_attempts, resp, origin>>

\* line 175: the allow_stale argument of the fallback lookup
FallbackAllowStale == TRUE

\* the failure remembered by refreshing fetched_at
CacheStampedOnProviderError(cache, clock) == [cache EXCEPT !.fetched_at = clock]

\* the cache invalidated by the failure
CacheDroppedOnProviderError(cache, clock) == [cache EXCEPT !.data = None]

\* lines 163-175: what the except clause does to _price_cache: nothing
CacheOnProviderError(cache, clock) == cache

\* lines 163-175: except PriceProviderError; get_cached_price(allow_stale=True)
\* reads the clock again (line 65)
HandleProviderError(t) ==
  /\ pc[t] = "except_provider"
  /\ pc' = [pc EXCEPT ![t] = "gcp_data"]
  /\ frame' = [frame EXCEPT ![t].allow_stale = FallbackAllowStale, ![t].now = now]
  /\ obs' = [obs EXCEPT ![t].last = None, ![t].kinds = {}]
  /\ price_cache' = CacheOnProviderError(price_cache, now)
  /\ origin' = [origin EXCEPT !.failed = TRUE]
  /\ UNCHANGED <<now, ticks, retry_attempts, resp>>

\* lines 203-215: except Exception
HandleUnexpected(t) ==
  /\ pc[t] = "except_unexpected"
  /\ pc' = [pc EXCEPT ![t] = "done"]
  /\ resp' = [resp EXCEPT ![t] = UnexpectedResponse(frame[t].e)]
  /\ frame' = [frame EXCEPT ![t] = EmptyFrame]
  /\ obs' = [obs EXCEPT ![t].last = None, ![t].kinds = {}]
  /\ UNCHANGED <<now, ticks, price_cache, retry_attempts, origin>>

\* lines 133-157: the provider returned; build response_payload
Normalize(t) ==
  /\ pc[t] = "normalize"
  /\ pc' = [pc EXCEPT ![t] = "update_data"]
  /\ frame' = [frame EXCEPT ![t].response_payload =
                 ResponsePayload(frame[t].provider_payload, now)]
  /\ obs' = [obs EXCEPT ![t].last = None, ![t].kinds = {}]
  /\ UNCHANGED <<now, ticks, price_cache, retry_attempts, resp, origin>>

\* line 81
StoreData(cache, data) == [cache EXCEPT !.data = data]

\* fetched_at left as it was
StoreFetchedAtSkipped(cache, clock) == cache

\* line 82
StoreFetchedAt(cache, clock) == [cache EXCEPT !.fetched_at = clock]

\* update_cache, line 81
UpdateCacheData(t) ==
  /\ pc[t] = "update_data"
  /\ price_cache' = StoreData(price_cache, frame[t].response_payload)
  /\ pc' = [pc EXCEPT ![t] = "update_fetched_at"]
  /\ origin' = [pending |-> t,
                coherent |-> FALSE,
                before |-> {p \in origin.before : p[1] # t /\ p[2] # t},
                behind |-> {u \in Threads : <<u, t>> \in origin.before /\ InFetch(u)},
                regressed |-> t \in origin.behind,
                failed |-> FALSE]
  /\ obs' = [u \in Threads |->
               IF pc[u] = "gcp_ret" THEN [obs[u] EXCEPT !.view = "torn"] ELSE obs[u]]
  /\ UNCHANGED <<now, ticks, retry_attempts, frame, resp>>

\* update_cache, line 82, and the return of line 161
UpdateCacheFetchedAt(t) ==
  /\ pc[t] = "update_fetched_at"
  /\ price_cache' = StoreFetchedAt(price_cache, now)
  /\ resp' = [resp EXCEPT ![t] = [status |-> 200, body |-> frame[t].response_payload]]
  /\ pc' = [pc EXCEPT ![t] = "done"]
  /\ frame' = [frame EXCEPT ![t] = EmptyFrame]
  /\ origin' = [origin EXCEPT !.coherent = (origin.pending = t),
                               !.pending = IF @ = t THEN 0 ELSE @,
                               !.regressed = FALSE]
  /\ UNCHANGED <<now, ticks, retry_attempts, obs>>

\* the response has been sent; the thread is free for another request
Deliver(t) ==
  /\ pc[t] = "done"
  /\ pc' = [pc EXCEPT ![t] = "idle"]
  /\ frame' = [frame EXCEPT ![t] = EmptyFrame]
  /\ resp' = [resp EXCEPT ![t] = None]
  /\ obs' = [obs EXCEPT ![t] = EmptyObs]
  /\ UNCHANGED <<now, ticks, price_cache, retry_attempts, origin>>

\* -------------------------------------------------------------- behaviours
Step(t) ==
  \/ ReadData(t)
  \/ ReadFetchedAt(t)
  \/ BuildCached(t)
  \/ HttpAttempt(t)
  \/ Sleep(t)
  \/ HandleProviderError(t)
  \/ HandleUnexpected(t)
  \/ Normalize(t)
  \/ UpdateCacheData(t)
  \/ UpdateCacheFetchedAt(t)
  \/ Deliver(t)

\* requests served by concurrent threads, as under a threaded WSGI server; the
\* upstream answers with one of ConcurrentOutcomes
ConcurrentOutcomes ==
  {Outcome("network", "timeout", 0, FALSE, "absent", "absent"),
   Outcome("json", "", 200, TRUE, "huge", "epoch"),
   Outcome("json", "", 200, TRUE, "p1", "epoch")}

ConcurrentHttpAttempt(t) == LoopPass(t, ConcurrentOutcomes)

ConcurrentStep(t) ==
  \/ ReadData(t)
  \/ ReadFetchedAt(t)
  \/ BuildCached(t)
  \/ ConcurrentHttpAttempt(t)
  \/ Sleep(t)
  \/ HandleProviderError(t)
  \/ HandleUnexpected(t)
  \/ Normalize(t)
  \/ UpdateCacheData(t)
  \/ UpdateCacheFetchedAt(t)
  \/ Deliver(t)

Next ==
  \/ Tick
  \/ \E t \in Threads : Request(t) \/ ConcurrentStep(t)

Spec == Init /\ [][Next]_vars

\* one request at a time: a request arrives only when no other is being served
SeqRequest(t) ==
  /\ \A u \in Threads : pc[u] = "idle"
  /\ Request(t)

SeqNext ==
  \/ Tick
  \/ \E t \in Threads : SeqRequest(t) \/ Step(t)

SeqSpec == Init /\ [][SeqNext]_vars

\* every HTTP attempt returns or times out and a request thread that can take
\* a step eventually takes it
FairSeqSpec == SeqSpec /\ \A t \in Threads : WF_vars(Step(t))

\* ------------------------------------------------------------------ claims
Done(t) == pc[t] = "done"

\* the cache held a quote when the request arrived, and its age then
HadQuote(t) == obs[t].at_data # None
ArrivalAge(t) == obs[t].at_now - obs[t].at_fetched_at

Abs(x) == IF x < 0 THEN -x ELSE x

\* the response body is the cached payload, stale and cache_age_seconds apart
CarriesCachedQuote(t) ==
  /\ DOMAIN resp[t].body = DOMAIN obs[t].at_data
  /\ \A k \in DOMAIN obs[t].at_data \ {"stale", "cache_age_seconds"} :
       resp[t].body[k] = obs[t].at_data[k]

ValidPrice(p) == p.cls = "finite" /\ p.n > 0

\* C1 as stated: a request arriving at a cached quote of age <= TTL is answered
\* with that quote, stale = false and cache_age_seconds equal to the age, and
\* makes no upstream call.
C1_FreshHitExactAge ==
  \A t \in Threads :
    (Done(t) /\ HadQuote(t) /\ ArrivalAge(t) <= TTL) =>
      /\ resp[t].status = 200
      /\ obs[t].calls = 0
      /\ CarriesCachedQuote(t)
      /\ resp[t].body.stale = FALSE
      /\ resp[t].body.cache_age_seconds = ArrivalAge(t)

\* C1 amended: a request arriving at a cached quote of age <= TTL is answered
\* with that quote, stale = false and cache_age_seconds the age rounded to the
\* nearest hundredth of a second, and makes no upstream call.
C1_FreshHitRoundedAge ==
  \A t \in Threads :
    (Done(t) /\ HadQuote(t) /\ ArrivalAge(t) <= TTL) =>
      /\ resp[t].status = 200
      /\ obs[t].calls = 0
      /\ CarriesCachedQuote(t)
      /\ resp[t].body.stale = FALSE
      /\ resp[t].body.cache_age_seconds % SubTicks = 0
      /\ 2 * Abs(resp[t].body.cache_age_seconds - ArrivalAge(t)) <= SubTicks

C1_Witness ==
  \E t \in Threads :
    /\ Done(t) /\ HadQuote(t) /\ ArrivalAge(t) <= TTL
    /\ ArrivalAge(t) % SubTicks # 0
    /\ resp[t].status = 200
    /\ resp[t].body.cache_age_seconds # ArrivalAge(t)

\* the request found a quote older than TTL and its fetch raised
\* PriceProviderError
StaleFallbackCase(t) ==
  /\ Done(t) /\ HadQuote(t) /\ ArrivalAge(t) > TTL
  /\ obs[t].fetch = "PriceProviderError"

C3_NoCacheHardFailure ==
  \A t \in Threads :
    (Done(t) /\ ~HadQuote(t) /\ obs[t].fetch = "PriceProviderError") =>
      /\ resp[t].status = 502
      /\ DOMAIN resp[t].body = {"error", "details"}
      /\ price_cache.data = None

C3_Witness ==
  \E t \in Threads :
    /\ Done(t) /\ ~HadQuote(t) /\ obs[t].fetch = "PriceProviderError"
    /\ resp[t].status = 502

\* C4: a request arriving at an empty or expired cache whose fetch returns
\* quote Q leaves Q in the cache stamped with the clock of the update, and
\* answers 200 with Q's price and source, stale = false, cache_age_seconds = 0;
\* a request arriving at the clock value of the stamp is a fresh cache hit.
C4_SuccessOverwritesCache ==
  \A t \in Threads :
    /\ (Done(t) /\ (~HadQuote(t) \/ ArrivalAge(t) > TTL) /\ obs[t].fetch = "returned") =>
         /\ resp[t].status = 200
         /\ resp[t].body.price = obs[t].quote.price
         /\ resp[t].body.source = obs[t].quote.source
         /\ resp[t].body.stale = FALSE
         /\ resp[t].body.cache_age_seconds = 0
         /\ price_cache.data = resp[t].body
         /\ price_cache.fetched_at >= obs[t].at_now
         /\ price_cache.fetched_at <= now
    /\ (Done(t) /\ HadQuote(t) /\ obs[t].at_now = obs[t].at_fetched_at) =>
         /\ resp[t].status = 200
         /\ obs[t].calls = 0
         /\ resp[t].body.stale = FALSE
         /\ resp[t].body.price = obs[t].at_data.price

C4_Witness ==
  \E t \in Threads :
    /\ Done(t) /\ HadQuote(t) /\ ArrivalAge(t) > TTL /\ obs[t].fetch = "returned"
    /\ price_cache.data = resp[t].body
    /\ price_cache.data.price # obs[t].at_data.price

\* C5: with a cached quote, a request arriving at age = TTL exactly is a fresh
\* hit (stale = false, no upstream call); a request arriving at age > TTL makes
\* at least one upstream call and, when the fetch raises PriceProviderError, is
\* answered with stale = true.
C5_FreshnessBoundary ==
  \A t \in Threads :
    (Done(t) /\ HadQuote(t)) =>
      /\ ArrivalAge(t) = TTL =>
           /\ resp[t].status = 200
           /\ resp[t].body.stale = FALSE
           /\ obs[t].calls = 0
      /\ ArrivalAge(t) > TTL =>
           /\ obs[t].calls >= 1
           /\ obs[t].fetch = "PriceProviderError" =>
                (resp[t].status = 200 /\ resp[t].body.stale = TRUE)

C5_Witness ==
  \E t \in Threads :
    /\ Done(t) /\ HadQuote(t) /\ ArrivalAge(t) = TTL
    /\ resp[t].status = 200
    /\ obs[t].calls = 0

\* C6: at most one request is inside get_btc_usd_price at any time.
InFlight == {t \in Threads : pc[t] \in {"http", "sleep"}}

C6_SingleFlight == Cardinality(InFlight) <= 1

FourKinds == {"network", "status", "badjson", "structure"}

\* C7: while every attempt fails as a network, status, JSON or structure
\* error the loop goes on, and when it ends it has issued exactly
\* retry_attempts requests.get calls and raises PriceProviderError.
C7_RetryExhaustion ==
  \A t \in Threads :
    /\ (pc[t] \in {"http", "sleep"}) =>
         /\ obs[t].kinds \subseteq FourKinds
         /\ frame[t].attempt <= retry_attempts
         /\ obs[t].calls = frame[t].attempt - (IF pc[t] = "http" THEN 1 ELSE 0)
    /\ (pc[t] = "except_provider") =>
         /\ obs[t].kinds \subseteq FourKinds
         /\ obs[t].calls = retry_attempts
         /\ frame[t].e.type = "PriceProviderError"
    /\ (obs[t].fetch = "PriceProviderError") => obs[t].calls = retry_attempts

C7_Witness ==
  \E t \in Threads :
    /\ pc[t] = "except_provider"
    /\ retry_attempts = MaxRetryAttempts
    /\ obs[t].calls = MaxRetryAttempts
    /\ Cardinality(obs[t].kinds) >= 2

\* C8: the error get_btc_usd_price raises after its last attempt failed is
\* the error classified from that last attempt.
C8_LastErrorRaised ==
  \A t \in Threads :
    (pc[t] = "except_provider") => frame[t].e = obs[t].last

C8_Witness ==
  \E t \in Threads :
    /\ pc[t] = "except_provider"
    /\ obs[t].calls >= 2
    /\ Cardinality(obs[t].kinds) >= 2
    /\ frame[t].e = obs[t].last

\* C9: a request arriving at a cache that holds a quote is answered with a
\* quote (200), never with an error.
C9_StalePreferredOverFailure ==
  \A t \in Threads :
    (Done(t) /\ HadQuote(t)) => resp[t].status = 200

\* C10: every quote get_btc_usd_price returns, every quote in the cache and
\* every quote in a response has a finite price > 0.
C10_QuoteValidity ==
  /\ price_cache.data # None => ValidPrice(price_cache.data.price)
  /\ \A t \in Threads :
       /\ obs[t].quote # None => ValidPrice(obs[t].quote.price)
       /\ (Done(t) /\ resp[t].status = 200) => ValidPrice(resp[t].body.price)

Updating(t) ==
  /\ pc[t] \in {"update_data", "update_fetched_at"}
  /\ obs[t].fetch = "returned"

\* C12: a step changes _price_cache only when it is a step of update_cache in
\* a request whose fetch returned a quote; a request that ends as a cache hit,
\* a stale fallback, a 502 or a 500 leaves data and fetched_at as it found
\* them, and so does the passage of time.
C12_CacheChangesOnlyOnSuccess ==
  [][ /\ (price_cache' # price_cache) =>
           (\E t \in Threads : Updating(t) /\ pc'[t] # pc[t])
      /\ \A t \in Threads :
           (pc'[t] = "done" /\ obs'[t].fetch # "returned") =>
             /\ price_cache'.data = obs'[t].at_data
             /\ price_cache'.fetched_at = obs'[t].at_fetched_at
    ]_vars

C12_Witness ==
  \E t \in Threads :
    /\ Done(t) /\ HadQuote(t) /\ ArrivalAge(t) > TTL
    /\ obs[t].fetch = "PriceProviderError"
    /\ now > obs[t].at_now
    /\ price_cache.data = obs[t].at_data
    /\ price_cache.fetched_at = obs[t].at_fetched_at

\* a response built by get_cached_price from the two fields of the cache
ServedFromCache(t) == Done(t) /\ obs[t].view # "none"

\* C13: no torn cache state is ever read, also under concurrent requests: a
\* response built from the cache uses a fetched_at (line 68) and a data
\* (line 73) written by the same call of update_cache, never the data of one
\* update with the fetched_at of another update or the initial fetched_at.
C13_NoTornRead ==
  \A t \in Threads : ServedFromCache(t) => obs[t].view = "same"

\* a 200 response, which carries the stale flag and cache_age_seconds
QuoteResponse(t) == Done(t) /\ resp[t].status = 200

\* C14: also under concurrent requests, a response with stale = true has
\* cache_age_seconds > TTL and a response with stale = false has
\* cache_age_seconds <= TTL.
C14_StaleFlagMatchesAge ==
  \A t \in Threads :
    QuoteResponse(t) =>
      /\ resp[t].body.stale => resp[t].body.cache_age_seconds > TTL
      /\ ~resp[t].body.stale => resp[t].body.cache_age_seconds <= TTL

\* C14 with the rounding of cache_age_seconds allowed for (an age just above
\* TTL is reported as TTL): still not an invariant of concurrent requests
C14_StaleFlagMatchesRoundedAge ==
  \A t \in Threads :
    QuoteResponse(t) =>
      /\ resp[t].body.stale => resp[t].body.cache_age_seconds >= TTL
      /\ ~resp[t].body.stale => resp[t].body.cache_age_seconds <= TTL

\* C15: no lost update between racing requests: update_cache never replaces the
\* cached quote by one obtained from a fetch that started earlier than the
\* fetch of the quote it overwrites.
C15_NoLostUpdate == ~origin.regressed

\* C16: once the cache holds a quote it never becomes empty again: no step,
\* whether of a request, of a failing fetch or of the clock, takes data from
\* present back to None, and data is present whenever fetched_at has been set.
C16_NeverEmptyAgain ==
  [][ /\ price_cache.data # None => price_cache'.data # None
      /\ price_cache'.fetched_at # 0 => price_cache'.data # None
    ]_vars

C16_Witness ==
  \E t \in Threads :
    /\ Done(t) /\ HadQuote(t)
    /\ obs[t].fetch \in {"PriceProviderError", "unexpected"}
    /\ resp[t].status \in {200, 500}
    /\ ticks > 0
    /\ price_cache.data # None

\* the call of get_btc_usd_price by request t has returned a quote
FetchReturned(t) == obs[t].fetch = "returned"

\* C17: one call of get_btc_usd_price issues at most retry_attempts HTTP calls
\* and stops at the first attempt that yields a quote: from then on the request
\* makes no HTTP call and no sleep, what it hands on and answers with is the
\* quote of that attempt, and the errors of earlier attempts appear nowhere in
\* the response.
C17_StopsAtFirstSuccess ==
  [][ \A t \in Threads :
        /\ obs[t].calls <= retry_attempts
        /\ FetchReturned(t) =>
             /\ pc[t] \notin {"http", "sleep", "except_provider"}
             /\ obs[t].calls >= 1
             /\ pc[t] = "normalize" => frame[t].provider_payload = obs[t].quote
             /\ Done(t) =>
                  /\ resp[t].status = 200
                  /\ resp[t].body.price = obs[t].quote.price
                  /\ resp[t].body.provider_last_updated = obs[t].quote.provider_last_updated
                  /\ DOMAIN resp[t].body \cap {"error", "details", "warning"} = {}
             /\ pc'[t] # "idle" =>
                  /\ obs'[t].calls = obs[t].calls
                  /\ obs'[t].sleeps = obs[t].sleeps
                  /\ obs'[t].quote = obs[t].quote
    ]_vars

C17_Witness ==
  \E t \in Threads :
    /\ Done(t) /\ FetchReturned(t)
    /\ retry_attempts = MaxRetryAttempts
    /\ obs[t].calls = MaxRetryAttempts
    /\ obs[t].sleeps = MaxRetryAttempts - 1
    /\ resp[t].status = 200

\* C18: in get_btc_usd_price a sleep of retry_backoff_seconds follows a failed
\* attempt exactly when attempt < retry_attempts: attempt number n starts after
\* n - 1 calls and n - 1 sleeps, a sleep is entered only after a failed attempt
\* that is not the last, every sleep has the one fixed length, no sleep follows
\* the last attempt or a successful one, and a call that exhausts its
\* retry_attempts attempts has slept retry_attempts - 1 times.
C18_BackoffOrdering ==
  \A t \in Threads :
    /\ obs[t].slept = obs[t].sleeps * BackoffTicks
    /\ pc[t] = "http" =>
         /\ obs[t].calls = frame[t].attempt - 1
         /\ obs[t].sleeps = frame[t].attempt - 1
    /\ pc[t] = "sleep" =>
         /\ obs[t].last # None
         /\ frame[t].attempt < retry_attempts
         /\ obs[t].calls = frame[t].attempt
         /\ obs[t].sleeps = frame[t].attempt - 1
    /\ obs[t].fetch # "none" => obs[t].sleeps = obs[t].calls - 1
    /\ obs[t].fetch = "PriceProviderError" =>
         /\ obs[t].calls = retry_attempts
         /\ obs[t].sleeps = retry_attempts - 1

C18_Witness ==
  \E t \in Threads :
    /\ Done(t)
    /\ obs[t].fetch = "PriceProviderError"
    /\ retry_attempts = MaxRetryAttempts
    /\ obs[t].sleeps = MaxRetryAttempts - 1
    /\ obs[t].slept = (MaxRetryAttempts - 1) * BackoffTicks

\* C19, the liveness half: every request that has arrived eventually completes
C19_EveryRequestCompletes ==
  \A t \in Threads : (pc[t] = "gcp_data") ~> Done(t)

\* C19: a request completes with exactly one outcome, a quote or an error, and
\* when it called get_btc_usd_price it completes only after the fetch loop has
\* succeeded or has run all retry_attempts attempts: no request leaves the loop
\* in the middle of its retries.
C19_CompletesAfterLoop ==
  \A t \in Threads :
    Done(t) =>
      /\ resp[t] # None
      /\ resp[t].status \in {200, 500, 502}
      /\ ("price" \in DOMAIN resp[t].body) # ("error" \in DOMAIN resp[t].body)
      /\ ("price" \in DOMAIN resp[t].body) = (resp[t].status = 200)
      /\ obs[t].fetch # "none" =>
           \/ FetchReturned(t)
           \/ obs[t].calls = retry_attempts

\* the request arrived with nothing fresh to serve
ArrivedExpired(t) == ~HadQuote(t) \/ ArrivalAge(t) > TTL

\* C20: no negative caching: a request whose fetch failed, whether answered by
\* the stale fallback or by a 502, leaves fetched_at and data as it found them,
\* and every request that arrives with an empty cache or with age > TTL calls
\* the upstream again, retry_attempts times when all attempts fail, also when
\* it arrives right after a failed fetch.
C20_NoNegativeCaching ==
  \A t \in Threads :
    Done(t) =>
      /\ obs[t].fetch = "PriceProviderError" =>
           /\ price_cache.fetched_at = obs[t].at_fetched_at
           /\ price_cache.data = obs[t].at_data
           /\ resp[t].status = IF HadQuote(t) THEN 200 ELSE 502
      /\ ArrivedExpired(t) =>
           /\ obs[t].calls >= 1
           /\ obs[t].fetch # "none"
           /\ obs[t].fetch = "PriceProviderError" => obs[t].calls = retry_attempts

\* a request that arrived after a failed fetch, with a stale quote cached, is
\* making the last attempt of a fetch of its own
C20_Witness ==
  \E t \in Threads :
    /\ origin.failed
    /\ HadQuote(t) /\ ArrivalAge(t) > TTL
    /\ pc[t] = "http"
    /\ obs[t].fetch = "none"
    /\ retry_attempts = MaxRetryAttempts
    /\ frame[t].attempt = MaxRetryAttempts
    /\ obs[t].calls = MaxRetryAttempts - 1

\* the body of a response or a cached payload carries the warning field
HasWarning(body) == "warning" \in DOMAIN body

\* C21: in every 200 response the warning field is present if and only if
\* stale = true; a fresh cache hit and a freshly fetched response carry no
\* warning and stale = false; and the payload stored in the cache never
\* contains a warning or stale = true.
C21_WarningIffStale ==
  /\ \A t \in Threads :
       QuoteResponse(t) =>
         /\ HasWarning(resp[t].body) = resp[t].body.stale
         /\ obs[t].fetch \in {"none", "returned"} =>
              /\ ~HasWarning(resp[t].body)
              /\ ~resp[t].body.stale
  /\ price_cache.data # None =>
       /\ ~HasWarning(price_cache.data)
       /\ ~price_cache.data.stale

\* a stale fallback has answered with the warning and left the cached payload
\* without it
C21_Witness ==
  \E t \in Threads :
    /\ QuoteResponse(t)
    /\ obs[t].fetch = "PriceProviderError"
    /\ HasWarning(resp[t].body)
    /\ resp[t].body.stale
    /\ price_cache.data # None
    /\ ~HasWarning(price_cache.data)

====
